---- MODULE Spec2Model ----
(***************************************************************************)
(* A model of the picross engine (picore) and of the calls its console     *)
(* front end (piconsole) makes on it.                                      *)
(*                                                                         *)
(* Indices (rows, columns, item offsets) are 0-based as in the source;     *)
(* TLA+ sequences are 1-based, so the item at offset i is items[i + 1].    *)
(* A Rust panic (index out of bounds) is modelled by the field `panicked`  *)
(* of the value being built: the value is left as it was when the panic    *)
(* was raised and no later statement of the operation runs.                *)
(***************************************************************************)
EXTENDS Integers, Sequences, FiniteSets, TLC

VARIABLES
    pc,       \* where the program is: "start", "idle", "returned", "panicked", or a pure-function harness position
    puzzle,   \* the Puzzle handed to Picross::new (or the puzzle of a pure call)
    picross,  \* the Picross value: puzzle, board (items, width, height), status, options
    call,     \* the call in progress or just returned: operation, arguments, returned value
    prev,     \* the Picross value as it was when the current call was made
    solved    \* the front end's `solved` variable (main.rs)

vars == <<pc, puzzle, picross, call, prev, solved>>

----------------------------------------------------------------------------
(* Bounds of the model.                                                    *)

\* cell values a line of the run-matcher harness may hold: 1..NumValues
NumValues == 2
\* longest line given to the run-matcher harness
MaxLen == 3
\* most entries of a constraint given to the run-matcher harness
MaxEntries == 2
\* largest entry size of a constraint given to the run-matcher harness
MaxSize == 2
\* how far past the last row / column the coordinates of a call may lie
MaxOver == 1
\* how many cells of a board given to is_solved_by may differ from the board it starts from
MaxChanged == 2
\* how many filled cells a board of SpecCommute may hold when a call is made
MaxFilled == 1

----------------------------------------------------------------------------
(* cell.rs: Cell<C>                                                        *)

Empty == [tag |-> "Empty", value |-> 0]
CrossedOut == [tag |-> "CrossedOut", value |-> 0]
Filled(v) == [tag |-> "Filled", value |-> v]

is_ignored(cell) == cell.tag \in {"Empty", "CrossedOut"}

\* the value of piconsole's unit struct SimpleCell
SimpleCell == 1

----------------------------------------------------------------------------
(* puzzle.rs: ConstraintEntry, Puzzle, the run-matcher                     *)

ConstraintEntry(size, value) == [value |-> value, size |-> size]

Puzzle_new(row_constraints, column_constraints) ==
    [row_constraints |-> row_constraints, column_constraints |-> column_constraints]

\* One call of the batching closure on the cells from offset `pos` on
\* (next_group): skip the ignored cells, take the first filled cell, then take
\* while the peeked cell is filled with the same value.  None when out of cells.

\* a faulty variant: only Empty cells are skipped, a CrossedOut cell starts a group
RECURSIVE skip_ignored_empty_only(_, _)
skip_ignored_empty_only(cells, pos) ==
    IF pos >= Len(cells) THEN pos
    ELSE IF cells[pos + 1].tag = "Empty" THEN skip_ignored_empty_only(cells, pos + 1)
    ELSE pos

RECURSIVE skip_ignored(_, _)
skip_ignored(cells, pos) ==
    IF pos >= Len(cells) THEN pos
    ELSE IF cells[pos + 1].tag \in {"Empty", "CrossedOut"} THEN skip_ignored(cells, pos + 1)
    ELSE pos

\* a faulty variant: the peeked cell is taken whatever its value: a change of value ends no run
RECURSIVE take_equal_any_value(_, _, _)
take_equal_any_value(cells, pos, value) ==
    IF pos < Len(cells) /\ cells[pos + 1].tag = "Filled"
    THEN take_equal_any_value(cells, pos + 1, value)
    ELSE pos

RECURSIVE take_equal(_, _, _)
take_equal(cells, pos, value) ==
    IF pos < Len(cells) /\ cells[pos + 1].tag = "Filled" /\ cells[pos + 1].value = value
    THEN take_equal(cells, pos + 1, value)
    ELSE pos

next_group(cells, pos) ==
    LET first == skip_ignored(cells, pos) IN
    IF first >= Len(cells) THEN [some |-> FALSE, value |-> 0, size |-> 0, pos |-> first]
    ELSE LET value == cells[first + 1].value
             end == take_equal(cells, first + 1, value)
         IN [some |-> TRUE, value |-> value, size |-> end - first, pos |-> end]

\* The loop of Puzzle::is_solved over (entries.next(), groups.next()).
RECURSIVE match_loop(_, _, _, _)
match_loop(constraint, k, cells, pos) ==
    LET actual == next_group(cells, pos) IN
    IF k >= Len(constraint)
    THEN ~actual.some
    ELSE IF ~actual.some THEN FALSE
    ELSE IF constraint[k + 1].value # actual.value \/ constraint[k + 1].size # actual.size
         THEN FALSE
         ELSE match_loop(constraint, k + 1, cells, actual.pos)

Puzzle_is_solved(constraint, cells) == match_loop(constraint, 0, cells, 0)

----------------------------------------------------------------------------
(* board.rs: Board<C>                                                      *)

new_raw(items, width, height) == [items |-> items, width |-> width, height |-> height]

new_empty(width, height) ==
    [items |-> [i \in 1..(width * height) |-> Empty], width |-> width, height |-> height]

\* &self.items[i] panics unless i < len
index_ok(board, i) == i < Len(board.items)

\* Board::row: &self.items[start..(start + self.width)]
row_ok(board, index) == (index * board.width) + board.width <= Len(board.items)
row(board, index) ==
    SubSeq(board.items, (index * board.width) + 1, (index * board.width) + board.width)

\* a faulty variant: the cursor advances by the height of the board
RECURSIVE Column_next_by_height(_, _)
Column_next_by_height(board, index) ==
    IF index >= Len(board.items) \/ board.height = 0 THEN <<>>
    ELSE <<board.items[index + 1]>> \o Column_next_by_height(board, index + board.height)

\* Board::column with Column::next: items.get(index), then index += width
RECURSIVE Column_next(_, _)
Column_next(board, index) ==
    IF index >= Len(board.items) THEN <<>>
    ELSE <<board.items[index + 1]>> \o Column_next(board, index + board.width)

column(board, index) == Column_next(board, index)

\* Board::get / Board::get_mut: items[(row * width) + col]
get_ok(board, r, c) == index_ok(board, (r * board.width) + c)
get(board, r, c) == board.items[(r * board.width) + c + 1]
get_mut_set(board, r, c, cell) ==
    [board EXCEPT !.items[(r * board.width) + c + 1] = cell]

\* Board::rows / Board::columns
rows(board) == [r \in 1..board.height |-> row(board, r - 1)]
columns(board) == [c \in 1..board.width |-> column(board, c - 1)]

\* Board::cells: (0..height).cartesian_product(0..width) mapped to (r, c, get(r, c))
Board_cells(board) ==
    [k \in 1..(board.height * board.width) |->
        <<(k - 1) \div board.width, (k - 1) % board.width,
          get(board, (k - 1) \div board.width, (k - 1) % board.width)>>]

----------------------------------------------------------------------------
(* puzzle.rs: row_is_solved, column_is_solved, is_solved_by                *)

\* self.row_constraints[index] and board.row(index) must both be in range
row_is_solved_ok(p, board, index) ==
    index < Len(p.row_constraints) /\ row_ok(board, index)
row_is_solved(p, board, index) ==
    Puzzle_is_solved(p.row_constraints[index + 1], row(board, index))

column_is_solved_ok(p, board, index) == index < Len(p.column_constraints)
column_is_solved(p, board, index) ==
    Puzzle_is_solved(p.column_constraints[index + 1], column(board, index))

\* (0..n).all(|i| ..): stops at the first line that is not solved
RECURSIVE all_rows(_, _, _)
all_rows(p, board, i) ==
    IF i >= Len(p.row_constraints) THEN TRUE
    ELSE IF ~row_is_solved(p, board, i) THEN FALSE
    ELSE all_rows(p, board, i + 1)

RECURSIVE all_columns(_, _, _)
all_columns(p, board, i) ==
    IF i >= Len(p.column_constraints) THEN TRUE
    ELSE IF ~column_is_solved(p, board, i) THEN FALSE
    ELSE all_columns(p, board, i + 1)

\* a faulty variant: the columns are not looked at
is_solved_by_rows_only(p, board) == all_rows(p, board, 0)

is_solved_by(p, board) == all_rows(p, board, 0) /\ all_columns(p, board, 0)

----------------------------------------------------------------------------
(* picross.rs: Picross<C>                                                  *)

\* a faulty variant: a bit once set is never cleared
BitVec_set_sticky(bits, index, value) == [bits EXCEPT ![index + 1] = bits[index + 1] \/ value]

\* self.status.row_status.set(row, completed)
BitVec_set(bits, index, value) == [bits EXCEPT ![index + 1] = value]

AUTO_CROSS_COMPLETED == "AUTO_CROSS_COMPLETED"

Panic(g) == [g EXCEPT !.panicked = TRUE]

width(g) == g.board.width
height(g) == g.board.height

Picross_get_ok(g, r, c) == get_ok(g.board, r, c)
Picross_get(g, r, c) == get(g.board, r, c)

\* a faulty variant: the blanks of a solved row are left as they are
cross_row_skipped(g, r, c) == g

\* for c in 0..self.width(): Empty becomes CrossedOut (picross.rs 81-86)
RECURSIVE cross_row(_, _, _)
cross_row(g, r, c) ==
    IF c >= width(g) THEN g
    ELSE IF ~get_ok(g.board, r, c) THEN Panic(g)
    ELSE IF get(g.board, r, c) = Empty
         THEN cross_row([g EXCEPT !.board = get_mut_set(g.board, r, c, CrossedOut)], r, c + 1)
         ELSE cross_row(g, r, c + 1)

\* a faulty variant: a cross-out of an unsolved row is reverted whatever its column says
RECURSIVE revert_row_any_column(_, _, _)
revert_row_any_column(g, r, c) ==
    IF c >= width(g) THEN g
    ELSE IF ~get_ok(g.board, r, c) THEN Panic(g)
    ELSE IF get(g.board, r, c) = CrossedOut
         THEN revert_row_any_column([g EXCEPT !.board = get_mut_set(g.board, r, c, Empty)], r, c + 1)
         ELSE revert_row_any_column(g, r, c + 1)

\* for c in 0..self.width(): CrossedOut becomes Empty unless its column is solved (88-94)
RECURSIVE revert_row(_, _, _)
revert_row(g, r, c) ==
    IF c >= width(g) THEN g
    ELSE IF ~get_ok(g.board, r, c) THEN Panic(g)
    ELSE IF get(g.board, r, c) = CrossedOut
         THEN IF ~column_is_solved_ok(g.puzzle, g.board, c) THEN Panic(g)
              ELSE IF ~column_is_solved(g.puzzle, g.board, c)
                   THEN revert_row([g EXCEPT !.board = get_mut_set(g.board, r, c, Empty)], r, c + 1)
                   ELSE revert_row(g, r, c + 1)
         ELSE revert_row(g, r, c + 1)

\* check_row in its two parts: the bit is stored (picross.rs 76-77), then the
\* annotation pass runs with the local `completed` (79-96)
check_row_ok(g, r) ==
    row_is_solved_ok(g.puzzle, g.board, r) /\ r < Len(g.status.row_status)

check_row_store(g, r, completed) ==
    [g EXCEPT !.status.row_status = BitVec_set(g.status.row_status, r, completed)]

check_row_annotate(g, r, completed) ==
    IF AUTO_CROSS_COMPLETED \in g.options
    THEN IF completed THEN cross_row(g, r, 0) ELSE revert_row(g, r, 0)
    ELSE g

check_row(g, r) ==
    IF ~check_row_ok(g, r) THEN Panic(g)
    ELSE LET completed == row_is_solved(g.puzzle, g.board, r)
         IN check_row_annotate(check_row_store(g, r, completed), r, completed)

\* a faulty variant: every cell of a solved column is crossed out, filled or not
RECURSIVE cross_column_overwriting(_, _, _)
cross_column_overwriting(g, c, r) ==
    IF r >= height(g) THEN g
    ELSE IF ~get_ok(g.board, r, c) THEN Panic(g)
    ELSE cross_column_overwriting([g EXCEPT !.board = get_mut_set(g.board, r, c, CrossedOut)], c, r + 1)

\* for r in 0..self.height(): Empty becomes CrossedOut (picross.rs 105-110)
RECURSIVE cross_column(_, _, _)
cross_column(g, c, r) ==
    IF r >= height(g) THEN g
    ELSE IF ~get_ok(g.board, r, c) THEN Panic(g)
    ELSE IF get(g.board, r, c) = Empty
         THEN cross_column([g EXCEPT !.board = get_mut_set(g.board, r, c, CrossedOut)], c, r + 1)
         ELSE cross_column(g, c, r + 1)

\* a faulty variant: the cross-outs of an unsolved column are left as they are
revert_column_skipped(g, c, r) == g

\* for r in 0..self.height(): CrossedOut becomes Empty unless its row is solved (112-118)
RECURSIVE revert_column(_, _, _)
revert_column(g, c, r) ==
    IF r >= height(g) THEN g
    ELSE IF ~get_ok(g.board, r, c) THEN Panic(g)
    ELSE IF get(g.board, r, c) = CrossedOut
         THEN IF ~row_is_solved_ok(g.puzzle, g.board, r) THEN Panic(g)
              ELSE IF ~row_is_solved(g.puzzle, g.board, r)
                   THEN revert_column([g EXCEPT !.board = get_mut_set(g.board, r, c, Empty)], c, r + 1)
                   ELSE revert_column(g, c, r + 1)
         ELSE revert_column(g, c, r + 1)

\* check_column in its two parts (picross.rs 100-101, 103-120)
check_column_ok(g, c) ==
    column_is_solved_ok(g.puzzle, g.board, c) /\ c < Len(g.status.column_status)

check_column_store(g, c, completed) ==
    [g EXCEPT !.status.column_status = BitVec_set(g.status.column_status, c, completed)]

check_column_annotate(g, c, completed) ==
    IF AUTO_CROSS_COMPLETED \in g.options
    THEN IF completed THEN cross_column(g, c, 0) ELSE revert_column(g, c, 0)
    ELSE g

check_column(g, c) ==
    IF ~check_column_ok(g, c) THEN Panic(g)
    ELSE LET completed == column_is_solved(g.puzzle, g.board, c)
         IN check_column_annotate(check_column_store(g, c, completed), c, completed)

\* a faulty variant: the column is not checked
check_row_only(g, r, c) == check_row(g, r)

check(g, r, c) ==
    LET g1 == check_row(g, r) IN
    IF g1.panicked THEN g1 ELSE check_column(g1, c)

\* a faulty variant: only the rows are asked
Picross_is_solved_rows_only(g) ==
    \A i \in 1..Len(g.status.row_status) : g.status.row_status[i]

Picross_is_solved(g) ==
    /\ \A i \in 1..Len(g.status.row_status) : g.status.row_status[i]
    /\ \A i \in 1..Len(g.status.column_status) : g.status.column_status[i]

\* the two loops of Picross::new
RECURSIVE new_rows(_, _, _)
new_rows(g, r, n) ==
    IF r >= n \/ g.panicked THEN g ELSE new_rows(check_row(g, r), r + 1, n)

\* a faulty variant: the columns are not checked at construction
new_columns_skipped(g, c, n) == g

RECURSIVE new_columns(_, _, _)
new_columns(g, c, n) ==
    IF c >= n \/ g.panicked THEN g ELSE new_columns(check_column(g, c), c + 1, n)

Picross_new(p) ==
    LET g0 == [puzzle |-> p,
               board |-> new_empty(Len(p.row_constraints), Len(p.column_constraints)),
               status |-> [row_status |-> [i \in 1..Len(p.row_constraints) |-> FALSE],
                           column_status |-> [i \in 1..Len(p.column_constraints) |-> FALSE]],
               options |-> {AUTO_CROSS_COMPLETED},
               panicked |-> FALSE]
        g1 == new_rows(g0, 0, height(g0))
    IN new_columns(g1, 0, width(g1))

\* what a call returns: the Picross value it leaves and, unless it panicked, the boolean
Returned(g) == [picross |-> g, ret |-> IF g.panicked THEN FALSE ELSE Picross_is_solved(g)]

cross_out(g, r, c) ==
    IF ~get_ok(g.board, r, c) THEN Returned(Panic(g))
    ELSE Returned(check([g EXCEPT !.board = get_mut_set(g.board, r, c, CrossedOut)], r, c))

clear_at(g, r, c) ==
    IF ~get_ok(g.board, r, c) THEN Returned(Panic(g))
    ELSE Returned(check([g EXCEPT !.board = get_mut_set(g.board, r, c, Empty)], r, c))

place_at(g, value, r, c) ==
    IF ~get_ok(g.board, r, c) THEN Returned(Panic(g))
    ELSE Returned(check([g EXCEPT !.board = get_mut_set(g.board, r, c, Filled(value))], r, c))

----------------------------------------------------------------------------
(* The puzzles the program is run on.                                      *)

\* an entry of n cells of SimpleCell, as written by constraints![n, SimpleCell]
S(n) == ConstraintEntry(n, SimpleCell)

\* puzzle.rs tests::test_puzzle: 3 rows, 5 columns
test_puzzle ==
    Puzzle_new(<< <<S(2)>>, <<S(1), S(1)>>, <<S(2)>> >>,
               << <<S(1)>>, <<S(1), S(1)>>, <<S(1), S(1)>>, <<S(1)>>, <<>> >>)

\* test_puzzle with rows and columns exchanged: 5 rows, 3 columns
test_puzzle_transposed ==
    Puzzle_new(test_puzzle.column_constraints, test_puzzle.row_constraints)

\* main.rs demo_puzzle: 5 rows, 5 columns
demo_puzzle ==
    Puzzle_new(<< <<S(1), S(1)>>, <<S(1), S(1)>>, <<>>, <<S(1), S(1)>>, <<S(3)>> >>,
               << <<S(1)>>, <<S(2), S(1)>>, <<S(1)>>, <<S(2), S(1)>>, <<S(1)>> >>)

\* Square puzzles small enough to explore every sequence of calls.
\*   #      one cell
puzzle_1x1 == Puzzle_new(<< <<S(1)>> >>, << <<S(1)>> >>)
\*   #.     a diagonal (two solutions)
\*   .#
puzzle_diagonal == Puzzle_new(<< <<S(1)>>, <<S(1)>> >>, << <<S(1)>>, <<S(1)>> >>)
\*   ##     a full row above an empty row
\*   ..
puzzle_top_row == Puzzle_new(<< <<S(2)>>, <<>> >>, << <<S(1)>>, <<S(1)>> >>)
\*   12     two values: a change of value ends a run
\*   22
puzzle_two_values ==
    Puzzle_new(<< <<ConstraintEntry(1, 1), ConstraintEntry(1, 2)>>, <<ConstraintEntry(2, 2)>> >>,
               << <<ConstraintEntry(1, 1), ConstraintEntry(1, 2)>>, <<ConstraintEntry(2, 2)>> >>)
\*   ##     no solution: the rows ask for four cells, the columns for two
\*   ##
puzzle_unsolvable == Puzzle_new(<< <<S(2)>>, <<S(2)>> >>, << <<S(1)>>, <<S(1)>> >>)
\*   .#.    the 3x3 analogue of the ring of test_puzzle
\*   #.#
\*   .#.
puzzle_ring ==
    Puzzle_new(<< <<S(1)>>, <<S(1), S(1)>>, <<S(1)>> >>,
               << <<S(1)>>, <<S(1), S(1)>>, <<S(1)>> >>)
\*   ##.    a corner, with an empty last row and an empty last column
\*   #..
\*   ...
puzzle_corner ==
    Puzzle_new(<< <<S(2)>>, <<S(1)>>, <<>> >>, << <<S(2)>>, <<S(1)>>, <<>> >>)
\*   #.#    a cross
\*   .#.
\*   #.#
puzzle_cross ==
    Puzzle_new(<< <<S(1), S(1)>>, <<S(1)>>, <<S(1), S(1)>> >>,
               << <<S(1), S(1)>>, <<S(1)>>, <<S(1), S(1)>> >>)
\*   ###    two full rows around an empty one
\*   ...
\*   ###
puzzle_bars ==
    Puzzle_new(<< <<S(3)>>, <<>>, <<S(3)>> >>,
               << <<S(1), S(1)>>, <<S(1), S(1)>>, <<S(1), S(1)>> >>)
\*   #.     an entry of size 0 in the second row
\*   ..
puzzle_zero_size ==
    Puzzle_new(<< <<S(1)>>, <<S(0)>> >>, << <<S(1)>>, <<>> >>)
\* no rows and no columns
puzzle_0x0 == Puzzle_new(<<>>, <<>>)
\* one row and two columns; two rows and one column
puzzle_1x2 == Puzzle_new(<< <<S(2)>> >>, << <<S(1)>>, <<S(1)>> >>)
puzzle_2x1 == Puzzle_new(<< <<S(1)>>, <<S(1)>> >>, << <<S(2)>> >>)

\*   1..    two values and an empty last row and last column
\*   .2.
\*   ...
puzzle_two_values_blank ==
    Puzzle_new(<< <<ConstraintEntry(1, 1)>>, <<ConstraintEntry(1, 2)>>, <<>> >>,
               << <<ConstraintEntry(1, 1)>>, <<ConstraintEntry(1, 2)>>, <<>> >>)

SquarePuzzles ==
    {puzzle_0x0, puzzle_1x1, puzzle_diagonal, puzzle_top_row, puzzle_two_values,
     puzzle_unsolvable, puzzle_ring, puzzle_corner, puzzle_cross, puzzle_bars,
     puzzle_zero_size}

Puzzles == SquarePuzzles \cup {test_puzzle, test_puzzle_transposed, puzzle_1x2, puzzle_2x1}

\* the values of the type C of a game: those its puzzle names, and SimpleCell
EntryValues(constraints) ==
    UNION {{constraints[i][k].value : k \in 1..Len(constraints[i])} : i \in 1..Len(constraints)}
CellValues(p) ==
    {SimpleCell} \cup EntryValues(p.row_constraints) \cup EntryValues(p.column_constraints)

----------------------------------------------------------------------------
(* The program: main() builds the game, then calls it and stores what each  *)
(* call returns.                                                           *)

NoPicross ==
    [puzzle |-> Puzzle_new(<<>>, <<>>), board |-> new_raw(<<>>, 0, 0),
     status |-> [row_status |-> <<>>, column_status |-> <<>>],
     options |-> {}, panicked |-> FALSE]

NoCall == [op |-> "none", row |-> 0, col |-> 0, cell |-> Empty, ret |-> FALSE]

Init ==
    /\ pc = "start"
    /\ puzzle \in Puzzles
    /\ picross = NoPicross
    /\ call = NoCall
    /\ prev = NoPicross
    /\ solved = FALSE

\* let mut picross = Picross::new(demo_puzzle());
New ==
    /\ pc = "start"
    /\ LET g == Picross_new(puzzle) IN
         /\ pc' = IF g.panicked THEN "panicked" ELSE "idle"
         /\ picross' = IF g.panicked THEN NoPicross ELSE g
    /\ call' = [NoCall EXCEPT !.op = "new"]
    /\ UNCHANGED <<puzzle, prev, solved>>

\* the coordinates a call may be given: in range, and up to MaxOver past the end
Rows == 0..(height(picross) - 1 + MaxOver)
Cols == 0..(width(picross) - 1 + MaxOver)

\* an editing call: the game it leaves, and the call with the value it returned
Edit(op, cell, r, c, out) ==
    /\ pc = "idle"
    /\ pc' = IF out.picross.panicked THEN "panicked" ELSE "returned"
    /\ picross' = out.picross
    /\ call' = [op |-> op, row |-> r, col |-> c, cell |-> cell, ret |-> out.ret]
    /\ prev' = picross
    /\ UNCHANGED <<puzzle, solved>>

PlaceAt ==
    \E r \in Rows, c \in Cols, v \in CellValues(puzzle) :
        Edit("place_at", Filled(v), r, c, place_at(picross, v, r, c))

CrossOut ==
    \E r \in Rows, c \in Cols :
        Edit("cross_out", CrossedOut, r, c, cross_out(picross, r, c))

ClearAt ==
    \E r \in Rows, c \in Cols :
        Edit("clear_at", Empty, r, c, clear_at(picross, r, c))

\* picross.get(pos.0, pos.1): the cell read is kept in call.cell
Get ==
    /\ pc = "idle"
    /\ \E r \in Rows, c \in Cols :
         IF Picross_get_ok(picross, r, c)
         THEN /\ pc' = "returned"
              /\ call' = [op |-> "get", row |-> r, col |-> c,
                          cell |-> Picross_get(picross, r, c), ret |-> FALSE]
         ELSE /\ pc' = "panicked"
              /\ call' = [op |-> "get", row |-> r, col |-> c, cell |-> Empty, ret |-> FALSE]
    /\ prev' = picross
    /\ UNCHANGED <<puzzle, picross, solved>>

\* solved = picross.cross_out(..) / clear_at(..) / place_at(..): the caller takes the value
Return ==
    /\ pc = "returned"
    /\ pc' = "idle"
    /\ solved' = IF call.op = "get" THEN solved ELSE call.ret
    /\ call' = NoCall
    /\ prev' = NoPicross
    /\ UNCHANGED <<puzzle, picross>>

Next == New \/ PlaceAt \/ CrossOut \/ ClearAt \/ Get \/ Return

Spec == Init /\ [][Next]_vars

----------------------------------------------------------------------------
(* An edit statement by statement: the cell is written, then check_row and *)
(* check_column each store their bit and run their annotation pass.  The   *)
(* call record keeps the local `completed` of the part in progress and     *)
(* which bits this re-check has stored so far.                             *)

InitSteps ==
    /\ pc = "start"
    /\ puzzle \in SquarePuzzles
    /\ picross = NoPicross
    /\ call = NoCall
    /\ prev = NoPicross
    /\ solved = FALSE

\* *self.board.get_mut(row, column) = cell  (picross.rs 55, 62, 70)
EditCells == {Empty, CrossedOut} \cup {Filled(v) : v \in CellValues(puzzle)}
Write ==
    /\ pc = "idle"
    /\ \E r \in 0..(height(picross) - 1), c \in 0..(width(picross) - 1), cell \in EditCells :
         /\ picross' = [picross EXCEPT !.board = get_mut_set(picross.board, r, c, cell)]
         /\ call' = [op |-> IF cell = Empty THEN "clear_at"
                            ELSE IF cell = CrossedOut THEN "cross_out" ELSE "place_at",
                     row |-> r, col |-> c, cell |-> cell, ret |-> FALSE,
                     completed |-> FALSE, stored |-> {}]
    /\ pc' = "check_row"
    /\ prev' = picross
    /\ UNCHANGED <<puzzle, solved>>

\* let completed = row_is_solved(..); row_status.set(row, completed)  (76-77)
RowStore ==
    /\ pc = "check_row"
    /\ check_row_ok(picross, call.row)
    /\ LET completed == row_is_solved(picross.puzzle, picross.board, call.row) IN
         /\ picross' = check_row_store(picross, call.row, completed)
         /\ call' = [call EXCEPT !.completed = completed, !.stored = @ \cup {"row"}]
    /\ pc' = "row_annotate"
    /\ UNCHANGED <<puzzle, prev, solved>>

\* the annotation pass of check_row  (79-96)
RowAnnotate ==
    /\ pc = "row_annotate"
    /\ picross' = check_row_annotate(picross, call.row, call.completed)
    /\ pc' = "check_column"
    /\ UNCHANGED <<puzzle, call, prev, solved>>

\* let completed = column_is_solved(..); column_status.set(column, completed)  (100-101)
ColumnStore ==
    /\ pc = "check_column"
    /\ check_column_ok(picross, call.col)
    /\ LET completed == column_is_solved(picross.puzzle, picross.board, call.col) IN
         /\ picross' = check_column_store(picross, call.col, completed)
         /\ call' = [call EXCEPT !.completed = completed, !.stored = @ \cup {"column"}]
    /\ pc' = "column_annotate"
    /\ UNCHANGED <<puzzle, prev, solved>>

\* the annotation pass of check_column, then self.is_solved()  (103-120, 57)
ColumnAnnotate ==
    /\ pc = "column_annotate"
    /\ LET g == check_column_annotate(picross, call.col, call.completed) IN
         /\ picross' = g
         /\ call' = [call EXCEPT !.ret = Picross_is_solved(g)]
    /\ pc' = "returned"
    /\ UNCHANGED <<puzzle, prev, solved>>

NextSteps == New \/ Write \/ RowStore \/ RowAnnotate \/ ColumnStore \/ ColumnAnnotate \/ Return

SpecSteps == InitSteps /\ [][NextSteps]_vars

----------------------------------------------------------------------------
(* Games of a few filled cells on puzzles of two values: the calls are     *)
(* those of Spec with coordinates inside the board, made while the board   *)
(* holds at most MaxFilled filled cells.                                   *)

CommutePuzzles ==
    {puzzle_diagonal, puzzle_top_row, puzzle_two_values, puzzle_zero_size,
     puzzle_corner, puzzle_two_values_blank}

FilledCount(board) ==
    Cardinality({i \in 1..Len(board.items) : ~is_ignored(board.items[i])})

InitCommute ==
    /\ pc = "start"
    /\ puzzle \in CommutePuzzles
    /\ picross = NoPicross
    /\ call = NoCall
    /\ prev = NoPicross
    /\ solved = FALSE

EditWithin ==
    /\ pc = "idle"
    /\ FilledCount(picross.board) <= MaxFilled
    /\ \E r \in 0..(height(picross) - 1), c \in 0..(width(picross) - 1), cell \in EditCells :
         IF cell = Empty THEN Edit("clear_at", cell, r, c, clear_at(picross, r, c))
         ELSE IF cell = CrossedOut THEN Edit("cross_out", cell, r, c, cross_out(picross, r, c))
         ELSE Edit("place_at", cell, r, c, place_at(picross, cell.value, r, c))

NextCommute == New \/ EditWithin \/ Return

SpecCommute == InitCommute /\ [][NextCommute]_vars

----------------------------------------------------------------------------
(* The demo of the front end: the game of demo_puzzle, filled in cell by   *)
(* cell with the picture drawn above demo_puzzle in main.rs.               *)

\* the nine filled cells of the picture (main.rs 16-20)
demo_solution ==
    {<<0, 1>>, <<0, 3>>, <<1, 1>>, <<1, 3>>, <<3, 0>>, <<3, 4>>, <<4, 1>>, <<4, 2>>, <<4, 3>>}

InitDemo ==
    /\ pc = "start"
    /\ puzzle = demo_puzzle
    /\ picross = NoPicross
    /\ call = NoCall
    /\ prev = NoPicross
    /\ solved = FALSE

\* the space key on a cell of the picture that is not filled yet (main.rs 185-190)
PlaceSolution ==
    /\ pc = "idle"
    /\ \E pos \in demo_solution :
        /\ Picross_get(picross, pos[1], pos[2]).tag # "Filled"
        /\ Edit("place_at", Filled(SimpleCell), pos[1], pos[2],
                place_at(picross, SimpleCell, pos[1], pos[2]))

NextDemo == New \/ PlaceSolution \/ Return

SpecDemo == InitDemo /\ [][NextDemo]_vars

----------------------------------------------------------------------------
(* The run-matcher on its own: Puzzle::is_solved applied to a constraint   *)
(* and a line of cells drawn from bounded sets.                            *)

\* sequences over S of length 0..n
SeqsUpTo(A, n) == UNION {[1..k -> A] : k \in 0..n}

LineCells == {Empty, CrossedOut} \cup {Filled(v) : v \in 1..NumValues}
Lines == SeqsUpTo(LineCells, MaxLen)
Entries == {ConstraintEntry(size, v) : size \in 0..MaxSize, v \in 1..NumValues}
Constraints == SeqsUpTo(Entries, MaxEntries)

InitMatch ==
    /\ pc = "is_solved_call"
    /\ puzzle = Puzzle_new(<<>>, <<>>)
    /\ picross = NoPicross
    /\ \E constraint \in Constraints, cells \in Lines :
         call = [op |-> "is_solved", constraint |-> constraint, cells |-> cells, ret |-> FALSE]
    /\ prev = NoPicross
    /\ solved = FALSE

IsSolved ==
    /\ pc = "is_solved_call"
    /\ pc' = "is_solved_ret"
    /\ call' = [call EXCEPT !.ret = Puzzle_is_solved(call.constraint, call.cells)]
    /\ UNCHANGED <<puzzle, picross, prev, solved>>

NextMatch == IsSolved

SpecMatch == InitMatch /\ [][NextMatch]_vars

----------------------------------------------------------------------------
(* Puzzle::is_solved_by on its own, as the tests of puzzle.rs call it: on  *)
(* a board built by Board::new_raw with the puzzle's dimensions.           *)

\* puzzle.rs tests::test_board, and the board of tests::check_fails
test_board ==
    new_raw(<<Empty, Filled(SimpleCell), Filled(SimpleCell), Empty, Empty,
              Filled(SimpleCell), Empty, Empty, Filled(SimpleCell), Empty,
              Empty, Filled(SimpleCell), Filled(SimpleCell), Empty, Empty>>, 5, 3)
check_fails_board ==
    new_raw(<<Empty, Filled(SimpleCell), Filled(SimpleCell), Empty, Filled(SimpleCell),
              Filled(SimpleCell), Empty, Empty, Filled(SimpleCell), Empty,
              Empty, Filled(SimpleCell), Filled(SimpleCell), Empty, Filled(SimpleCell)>>, 5, 3)

\* the boards a puzzle is tried on start from the empty board of its dimensions
\* (for test_puzzle also from the boards of the tests) ...
BaseBoards(p) ==
    {new_raw([i \in 1..(Len(p.row_constraints) * Len(p.column_constraints)) |-> Empty],
             Len(p.column_constraints), Len(p.row_constraints))}
      \cup (IF p = test_puzzle THEN {test_board, check_fails_board} ELSE {})

\* ... and differ from it in at most MaxChanged cells
CellsOf(p) == {Empty, CrossedOut} \cup {Filled(v) : v \in CellValues(p)}
Changes(base, p) ==
    UNION {[D -> CellsOf(p)] :
             D \in {D \in SUBSET (1..Len(base.items)) : Cardinality(D) <= MaxChanged}}
Changed(base, change) ==
    [base EXCEPT !.items =
        [i \in 1..Len(base.items) |-> IF i \in DOMAIN change THEN change[i] ELSE base.items[i]]]
Boards(p) ==
    UNION {{Changed(base, change) : change \in Changes(base, p)} : base \in BaseBoards(p)}

InitBoard ==
    /\ pc = "board_call"
    /\ puzzle \in Puzzles
    /\ picross = NoPicross
    /\ \E board \in Boards(puzzle) :
         call = [op |-> "is_solved_by", board |-> board, ret |-> FALSE]
    /\ prev = NoPicross
    /\ solved = FALSE

IsSolvedBy ==
    /\ pc = "board_call"
    /\ pc' = "is_solved_by_ret"
    /\ call' = [call EXCEPT !.ret = is_solved_by(puzzle, call.board)]
    /\ UNCHANGED <<puzzle, picross, prev, solved>>

\* the accessors of Board, as the tests of board.rs call them
Accessors ==
    /\ pc = "board_call"
    /\ pc' = "accessors_ret"
    /\ call' = [op |-> "accessors", board |-> call.board,
                rows |-> rows(call.board), columns |-> columns(call.board),
                cells |-> Board_cells(call.board), ret |-> FALSE]
    /\ UNCHANGED <<puzzle, picross, prev, solved>>

NextBoard == IsSolvedBy \/ Accessors

SpecBoard == InitBoard /\ [][NextBoard]_vars

----------------------------------------------------------------------------
(* What the claims speak of.                                               *)

\* The maximal runs of a line, stated without the scan: a run starts at a
\* filled cell whose left neighbour is not the same cell (an ignored cell or
\* another value), and extends over the equal cells that follow.
RunStarts(cells) ==
    {i \in 1..Len(cells) : cells[i].tag = "Filled" /\ (i = 1 \/ cells[i - 1] # cells[i])}

RunEnd(cells, i) ==
    CHOOSE j \in i..Len(cells) :
        /\ \A k \in i..j : cells[k] = cells[i]
        /\ j = Len(cells) \/ cells[j + 1] # cells[i]

NthStart(cells, n) ==
    CHOOSE i \in RunStarts(cells) : Cardinality({j \in RunStarts(cells) : j < i}) = n - 1

MaximalRuns(cells) ==
    [n \in 1..Cardinality(RunStarts(cells)) |->
        [value |-> cells[NthStart(cells, n)].value,
         size |-> RunEnd(cells, NthStart(cells, n)) - NthStart(cells, n) + 1]]

Constructed == pc \in {"idle", "returned"}
Edits == {"place_at", "cross_out", "clear_at"}
EditReturned == pc = "returned" /\ call.op \in Edits

RowCount == Len(puzzle.row_constraints)
ColCount == Len(puzzle.column_constraints)

----------------------------------------------------------------------------
(* C3: the run-matcher returns true exactly when the left-to-right sequence *)
(* of maximal runs of the line equals the constraint's entries element by  *)
(* element in (value, size), with the same number of elements; two unit    *)
(* runs of V around an ignored cell never satisfy [(V,2)], and one run of  *)
(* two V never satisfies [(V,1),(V,1)].                                    *)
C3_RunMatcher ==
    pc = "is_solved_ret" =>
        /\ call.ret = (MaximalRuns(call.cells) = call.constraint)
        /\ \A v \in 1..NumValues :
             /\ (/\ call.constraint = <<ConstraintEntry(2, v)>>
                 /\ Len(call.cells) = 3
                 /\ call.cells[1] = Filled(v) /\ is_ignored(call.cells[2])
                 /\ call.cells[3] = Filled(v)) => ~call.ret
             /\ (/\ call.constraint = <<ConstraintEntry(1, v), ConstraintEntry(1, v)>>
                 /\ call.cells = <<Filled(v), Filled(v)>>) => ~call.ret

\* a line of two adjacent runs of different values matched against its two entries
C3_Witness ==
    /\ pc = "is_solved_ret"
    /\ call.cells = <<Filled(1), Filled(2), Filled(2)>>
    /\ call.constraint = <<ConstraintEntry(1, 1), ConstraintEntry(2, 2)>>
    /\ call.ret

----------------------------------------------------------------------------
(* C1: after construction and after any sequence of in-range edits, the    *)
(* cached solved-bit of every row equals the run-matcher's result for that *)
(* row's constraint on the current row, and likewise for every column: the *)
(* cache is never stale, also for lines changed only by auto-annotation.   *)
C1_CacheNeverStale ==
    Constructed =>
        /\ Len(picross.status.row_status) = RowCount
        /\ Len(picross.status.column_status) = ColCount
        /\ \A r \in 0..(RowCount - 1) :
             picross.status.row_status[r + 1]
               = Puzzle_is_solved(puzzle.row_constraints[r + 1], row(picross.board, r))
        /\ \A c \in 0..(ColCount - 1) :
             picross.status.column_status[c + 1]
               = Puzzle_is_solved(puzzle.column_constraints[c + 1], column(picross.board, c))

\* an edit has returned after which a row other than the edited one holds a cell
\* that auto-annotation changed, and the edited row's bit went from set to clear
C1_Witness ==
    /\ EditReturned
    /\ prev.status.row_status[call.row + 1]
    /\ ~picross.status.row_status[call.row + 1]
    /\ \E r \in 0..(RowCount - 1) :
         /\ r # call.row
         /\ row(picross.board, r) # row(prev.board, r)

----------------------------------------------------------------------------
(* C2: each of place_at, cross_out and clear_at returns true exactly when, *)
(* on the board as it stands when the call returns, every row and every    *)
(* column satisfies its constraint: the value equals Puzzle::is_solved_by  *)
(* on that board and equals "all row bits and all column bits are set".    *)
C2_ReturnsSolved ==
    EditReturned =>
        /\ call.ret = is_solved_by(puzzle, picross.board)
        /\ call.ret = (/\ \A r \in 1..RowCount : picross.status.row_status[r]
                       /\ \A c \in 1..ColCount : picross.status.column_status[c])

\* an edit that returned true on a board with a filled cell, after a state not solved
C2_Witness ==
    /\ EditReturned
    /\ call.ret
    /\ ~Picross_is_solved(prev)
    /\ \E i \in 1..Len(picross.board.items) : picross.board.items[i].tag = "Filled"

----------------------------------------------------------------------------
(* C4: for every puzzle with R row constraints and C column constraints,   *)
(* R different from C included, Picross::new completes and yields a game   *)
(* whose board has height R and width C, with R row bits and C column      *)
(* bits, so that every (row, col) with row < R and col < C is a position   *)
(* of the board.                                                           *)
C4_NewYieldsBoard ==
    call.op = "new" =>
        /\ pc = "idle"
        /\ height(picross) = RowCount
        /\ width(picross) = ColCount
        /\ Len(picross.status.row_status) = RowCount
        /\ Len(picross.status.column_status) = ColCount
        /\ \A r \in 0..(RowCount - 1), c \in 0..(ColCount - 1) : get_ok(picross.board, r, c)

----------------------------------------------------------------------------
(* C5: after cross_out(row, col) returns, for any in-range position and    *)
(* any reachable state, the cell at (row, col) is CrossedOut.              *)
C5_CrossOutLeavesCrossedOut ==
    (pc = "returned" /\ call.op = "cross_out") =>
        get(picross.board, call.row, call.col) = CrossedOut

----------------------------------------------------------------------------
(* C6: in every state reached after construction and after any sequence of *)
(* edits, no Empty cell lies in a row whose solved-bit is set nor in a     *)
(* column whose solved-bit is set: every blank of a solved line has been   *)
(* converted to CrossedOut.                                                *)
C6_NoBlankInSolvedLine ==
    Constructed =>
        \A r \in 0..(RowCount - 1), c \in 0..(ColCount - 1) :
            get(picross.board, r, c) = Empty =>
                /\ ~picross.status.row_status[r + 1]
                /\ ~picross.status.column_status[c + 1]

\* an edit that solved its row, a blank of which (in an unsolved column) is now crossed out
C6_Witness ==
    /\ EditReturned
    /\ ~prev.status.row_status[call.row + 1]
    /\ picross.status.row_status[call.row + 1]
    /\ \E c \in 0..(ColCount - 1) :
         /\ c # call.col
         /\ ~picross.status.column_status[c + 1]
         /\ get(prev.board, call.row, c) = Empty
         /\ get(picross.board, call.row, c) = CrossedOut

----------------------------------------------------------------------------
(* C7: whenever an edit at (r, c) leaves row r unsolved, then when the     *)
(* operation returns every cell of row r that was CrossedOut (when the     *)
(* re-check began, that is once the edited cell was written) is Empty if   *)
(* its column is not solved on the resulting board and is still CrossedOut *)
(* if its column is solved; symmetrically for the cells of column c when   *)
(* column c is left unsolved, by the solved status of their rows.          *)
WrittenCell(r, c) ==
    IF r = call.row /\ c = call.col THEN call.cell ELSE get(prev.board, r, c)

C7_AutoRevert ==
    EditReturned =>
        /\ ~picross.status.row_status[call.row + 1] =>
             \A c \in 0..(ColCount - 1) :
                 WrittenCell(call.row, c) = CrossedOut =>
                     get(picross.board, call.row, c)
                       = IF picross.status.column_status[c + 1] THEN CrossedOut ELSE Empty
        /\ ~picross.status.column_status[call.col + 1] =>
             \A r \in 0..(RowCount - 1) :
                 WrittenCell(r, call.col) = CrossedOut =>
                     get(picross.board, r, call.col)
                       = IF picross.status.row_status[r + 1] THEN CrossedOut ELSE Empty

\* an edit broke a solved row: one of its cross-outs was reverted, another was kept
\* because its column is solved
C7_Witness ==
    /\ EditReturned
    /\ prev.status.row_status[call.row + 1]
    /\ ~picross.status.row_status[call.row + 1]
    /\ \E c1, c2 \in 0..(ColCount - 1) :
         /\ c1 # call.col /\ c2 # call.col
         /\ get(prev.board, call.row, c1) = CrossedOut
         /\ get(picross.board, call.row, c1) = Empty
         /\ get(prev.board, call.row, c2) = CrossedOut
         /\ get(picross.board, call.row, c2) = CrossedOut
         /\ picross.status.column_status[c2 + 1]

----------------------------------------------------------------------------
(* C8: a call of get, place_at, cross_out or clear_at with row >= height   *)
(* or col >= width fails immediately: it never reads or writes a different *)
(* in-range cell and no cell of the board is modified by the failing call. *)
C8_OutOfRangeFailsFast ==
    (/\ pc \in {"returned", "panicked"}
     /\ call.op \in Edits \cup {"get"}
     /\ (call.row >= height(prev) \/ call.col >= width(prev))) =>
        /\ pc = "panicked"
        /\ picross.board = prev.board

----------------------------------------------------------------------------
(* C9: for test_puzzle (3 row constraints, 5 column constraints) the bit   *)
(* of column 4 is set immediately after construction, and after placing    *)
(* Full at (0,1),(0,2),(1,0),(1,3),(2,1),(2,2) the last place returns      *)
(* overall solved = true.                                                  *)
test_board_filled == {<<0, 1>>, <<0, 2>>, <<1, 0>>, <<1, 3>>, <<2, 1>>, <<2, 2>>}

C9_TestPuzzleScenario ==
    puzzle = test_puzzle =>
        /\ call.op = "new" =>
             /\ pc = "idle"
             /\ Len(picross.status.column_status) = 5
             /\ picross.status.column_status[5]
        /\ (/\ pc = "returned" /\ call.op = "place_at"
            /\ \A r \in 0..2, c \in 0..4 :
                 (get(picross.board, r, c) = Filled(SimpleCell)) <=> (<<r, c>> \in test_board_filled))
             => call.ret

----------------------------------------------------------------------------
(* C10: for every puzzle P and every board B of matching dimensions,       *)
(* is_solved_by(P, B) is true exactly when row_is_solved holds for every   *)
(* row index and column_is_solved holds for every column index; one        *)
(* failing line makes it false (tests check_works and check_fails).        *)
C10_SolvedByAllLines ==
    pc = "is_solved_by_ret" =>
        /\ call.ret = (/\ \A i \in 0..(RowCount - 1) : row_is_solved(puzzle, call.board, i)
                       /\ \A j \in 0..(ColCount - 1) : column_is_solved(puzzle, call.board, j))
        /\ (puzzle = test_puzzle /\ call.board = test_board) => call.ret
        /\ (puzzle = test_puzzle /\ call.board = check_fails_board) => ~call.ret

\* a board on which every row is solved and a column is not: is_solved_by said false
C10_Witness ==
    /\ pc = "is_solved_by_ret"
    /\ ~call.ret
    /\ RowCount > 0
    /\ \A i \in 0..(RowCount - 1) : row_is_solved(puzzle, call.board, i)
    /\ \E j \in 0..(ColCount - 1) : ~column_is_solved(puzzle, call.board, j)
    /\ \E i \in 1..Len(call.board.items) : call.board.items[i].tag = "Filled"

----------------------------------------------------------------------------
(* C11: for every line L, the constraint with zero entries is satisfied by *)
(* L exactly when every cell of L is Empty or CrossedOut; replacing Empty  *)
(* cells by CrossedOut cells (or the reverse) never changes whether any    *)
(* constraint is satisfied.                                                *)
IgnoredPositions(cells) == {i \in 1..Len(cells) : is_ignored(cells[i])}

\* the lines that differ from `cells` only in which ignored cells are Empty or CrossedOut
IgnoredVariants(cells) ==
    {[i \in 1..Len(cells) |->
        IF i \in D THEN CrossedOut
        ELSE IF i \in IgnoredPositions(cells) THEN Empty ELSE cells[i]] :
     D \in SUBSET IgnoredPositions(cells)}

C11_IgnoredCells ==
    pc = "is_solved_ret" =>
        /\ call.constraint = <<>> =>
             call.ret = (\A i \in 1..Len(call.cells) : is_ignored(call.cells[i]))
        /\ \A other \in IgnoredVariants(call.cells) :
             Puzzle_is_solved(call.constraint, other) = call.ret

\* a satisfied constraint of two entries on a line holding both kinds of ignored cell
C11_Witness ==
    /\ pc = "is_solved_ret"
    /\ call.ret
    /\ Len(call.constraint) = 2
    /\ call.cells = <<Filled(1), CrossedOut, Filled(1)>>

----------------------------------------------------------------------------
(* C12: in any reachable state, clear_at on a position whose cell is       *)
(* already Empty leaves every cell of the board and both solved-bit        *)
(* vectors unchanged.                                                      *)
C12_ClearIdempotent ==
    (/\ pc = "returned" /\ call.op = "clear_at"
     /\ get(prev.board, call.row, call.col) = Empty) =>
        /\ picross.board = prev.board
        /\ picross.status = prev.status

\* clear_at returned on an Empty cell of a board that holds filled and crossed-out cells
C12_Witness ==
    /\ pc = "returned" /\ call.op = "clear_at"
    /\ get(prev.board, call.row, call.col) = Empty
    /\ \E i, j \in 1..Len(prev.board.items) :
         /\ prev.board.items[i] = CrossedOut
         /\ prev.board.items[j].tag = "Filled"

----------------------------------------------------------------------------
(* C13: in any state reached after construction or after an edit, running  *)
(* the re-check step again for any in-range (row, col), with no edit in    *)
(* between, changes no cell and no solved-bit.                             *)
C13_ReCheckFixedPoint ==
    Constructed =>
        \A r \in 0..(RowCount - 1), c \in 0..(ColCount - 1) :
            check(picross, r, c) = picross

\* an edit has returned that left annotations: a crossed-out cell and an Empty cell
C13_Witness ==
    /\ EditReturned
    /\ picross.board # prev.board
    /\ \E i, j \in 1..Len(picross.board.items) :
         /\ picross.board.items[i] = CrossedOut
         /\ picross.board.items[j] = Empty

----------------------------------------------------------------------------
(* C14: right after Picross::new, before any edit, the solved-bit of a row *)
(* or column is set exactly when its constraint has zero entries, every    *)
(* cell lying in such a row or column is CrossedOut, and every other cell  *)
(* is Empty.                                                               *)
C14_InitialState ==
    (call.op = "new" /\ pc = "idle") =>
        /\ \A r \in 1..RowCount :
             picross.status.row_status[r] = (Len(puzzle.row_constraints[r]) = 0)
        /\ \A c \in 1..ColCount :
             picross.status.column_status[c] = (Len(puzzle.column_constraints[c]) = 0)
        /\ \A r \in 0..(RowCount - 1), c \in 0..(ColCount - 1) :
             get(picross.board, r, c)
               = IF \/ Len(puzzle.row_constraints[r + 1]) = 0
                    \/ Len(puzzle.column_constraints[c + 1]) = 0
                 THEN CrossedOut ELSE Empty

\* a game just built from a puzzle with an empty column constraint and a non-empty one
C14_Witness ==
    /\ call.op = "new" /\ pc = "idle"
    /\ \E c1, c2 \in 1..ColCount :
         /\ Len(puzzle.column_constraints[c1]) = 0
         /\ Len(puzzle.column_constraints[c2]) > 0
    /\ \A r \in 1..RowCount : Len(puzzle.row_constraints[r]) > 0

----------------------------------------------------------------------------
(* C15: building a game from a puzzle that contains a constraint entry     *)
(* with size 0 is reported as an error at construction (Puzzle::new or     *)
(* Picross::new) instead of producing a playable game.                     *)
HasZeroSize(constraints) ==
    \E i \in 1..Len(constraints) : \E k \in 1..Len(constraints[i]) : constraints[i][k].size = 0

C15_ZeroSizeRejected ==
    (/\ call.op = "new"
     /\ HasZeroSize(puzzle.row_constraints) \/ HasZeroSize(puzzle.column_constraints)) =>
        pc = "panicked"

----------------------------------------------------------------------------
(* C16: for every row r < height and column c < width, row(r)[c], the r-th *)
(* item yielded by column(c) and get(r, c) are the same cell               *)
(* items[r*width + c]; row(r) has exactly width cells, column(c) yields    *)
(* exactly height cells, and rows() / columns() / cells() yield the lines  *)
(* in index order (tests row_works, col_works, get_works).                 *)
C16_RowMajorAccessors ==
    pc = "accessors_ret" =>
        LET b == call.board IN
        /\ Len(call.rows) = b.height
        /\ Len(call.columns) = b.width
        /\ Len(call.cells) = b.height * b.width
        /\ \A r \in 0..(b.height - 1) : Len(call.rows[r + 1]) = b.width
        /\ \A c \in 0..(b.width - 1) : Len(call.columns[c + 1]) = b.height
        /\ \A r \in 0..(b.height - 1), c \in 0..(b.width - 1) :
             /\ call.rows[r + 1][c + 1] = b.items[(r * b.width) + c + 1]
             /\ call.columns[c + 1][r + 1] = b.items[(r * b.width) + c + 1]
             /\ get(b, r, c) = b.items[(r * b.width) + c + 1]
             /\ call.cells[(r * b.width) + c + 1] = <<r, c, b.items[(r * b.width) + c + 1]>>
        /\ b = test_board =>
             /\ call.rows[2] = <<Filled(SimpleCell), Empty, Empty, Filled(SimpleCell), Empty>>
             /\ call.columns[2] = <<Filled(SimpleCell), Empty, Filled(SimpleCell)>>
             /\ call.columns[5] = <<Empty, Empty, Empty>>
             /\ get(b, 2, 1) = Filled(SimpleCell) /\ get(b, 1, 4) = Empty

\* the accessors were applied to a board of 3 rows and 5 columns with a changed cell
C16_Witness ==
    /\ pc = "accessors_ret"
    /\ call.board.width = 5 /\ call.board.height = 3
    /\ call.board # test_board
    /\ call.columns[5] = <<Empty, CrossedOut, Empty>>

----------------------------------------------------------------------------
(* C17: starting from a fresh game of demo_puzzle, placing a filled cell   *)
(* at exactly the nine positions of the pictured solution, in any order,   *)
(* makes the last place_at return true and no earlier place_at return      *)
(* true; in the final state every non-filled cell is CrossedOut.           *)
DemoAllPlaced ==
    \A pos \in demo_solution : get(picross.board, pos[1], pos[2]) = Filled(SimpleCell)

C17_DemoSolvable ==
    (pc = "returned" /\ call.op = "place_at") =>
        /\ call.ret <=> DemoAllPlaced
        /\ DemoAllPlaced =>
             \A r \in 0..4, c \in 0..4 :
                 get(picross.board, r, c)
                   = IF <<r, c>> \in demo_solution THEN Filled(SimpleCell) ELSE CrossedOut

\* the ninth place_at has returned true
C17_Witness ==
    /\ pc = "returned" /\ call.op = "place_at"
    /\ puzzle = demo_puzzle
    /\ DemoAllPlaced
    /\ call.ret

----------------------------------------------------------------------------
(* C18 as claimed: inside one re-check the solved-bit of the edited row    *)
(* and the solved-bit of the edited column are both computed and stored    *)
(* before the annotation pass of either line executes.                     *)
C18_BothBitsBeforeAnnotation ==
    pc \in {"row_annotate", "column_annotate"} => call.stored = {"row", "column"}

(* C18 as amended: the bit of the edited row is computed and stored before *)
(* the row's annotation pass executes, and the bit of the edited column    *)
(* before the column's annotation pass; the column's bit is stored only    *)
(* after the row's annotation pass has run.                                *)
C18_OwnBitBeforeAnnotation ==
    /\ pc = "row_annotate" =>
         /\ call.stored = {"row"}
         /\ picross.status.row_status[call.row + 1]
              = row_is_solved(puzzle, picross.board, call.row)
    /\ pc = "column_annotate" =>
         /\ call.stored = {"row", "column"}
         /\ picross.status.row_status[call.row + 1]
              = row_is_solved(puzzle, picross.board, call.row)
         /\ picross.status.column_status[call.col + 1]
              = column_is_solved(puzzle, picross.board, call.col)

\* the row's annotation pass is about to run while the stored bit of the edited
\* column is not what the column now is
C18_Witness ==
    /\ pc = "row_annotate"
    /\ picross.status.column_status[call.col + 1]
         # column_is_solved(puzzle, picross.board, call.col)

----------------------------------------------------------------------------
(* C19: the board and the solved-bits the implemented re-check produces    *)
(* (row bit and row annotation, then column bit and column annotation) are *)
(* those of a two-phase re-check (both bits first, then both annotation    *)
(* passes) and those of a re-check that takes the column before the row.   *)

\* the controller of the edit in progress right after its cell was written
Written == [prev EXCEPT !.board = get_mut_set(prev.board, call.row, call.col, call.cell)]

check_two_phase(g, r, c) ==
    LET row_completed == row_is_solved(g.puzzle, g.board, r)
        column_completed == column_is_solved(g.puzzle, g.board, c)
        stored == check_column_store(check_row_store(g, r, row_completed), c, column_completed)
    IN check_column_annotate(check_row_annotate(stored, r, row_completed), c, column_completed)

check_column_first(g, r, c) ==
    LET g1 == check_column(g, c) IN
    IF g1.panicked THEN g1 ELSE check_row(g1, r)

C19_OrderIndependent ==
    /\ EditReturned =>
         /\ picross = check_two_phase(Written, call.row, call.col)
         /\ picross = check_column_first(Written, call.row, call.col)
    /\ (pc = "panicked" /\ call.op \in Edits /\ get_ok(prev.board, call.row, call.col)) =>
         check_column_first(Written, call.row, call.col).panicked

\* a cross-out written where the row is unsolved and the column solved, with
\* both annotation passes changing cells
C19_Witness ==
    /\ EditReturned
    /\ call.cell = CrossedOut
    /\ ~picross.status.row_status[call.row + 1]
    /\ picross.status.column_status[call.col + 1]
    /\ get(picross.board, call.row, call.col) = CrossedOut
    /\ \E c \in 0..(ColCount - 1) :
         /\ c # call.col
         /\ get(picross.board, call.row, c) # get(prev.board, call.row, c)
    /\ \E r \in 0..(RowCount - 1) :
         /\ r # call.row
         /\ get(picross.board, r, call.col) # get(prev.board, r, call.col)

----------------------------------------------------------------------------
(* C20: an edit at (r, c) that returns leaves unchanged every cell that is *)
(* neither in row r nor in column c, every Filled cell other than (r, c)   *)
(* (annotation only turns Empty into CrossedOut or CrossedOut into Empty), *)
(* and the solved-bits of every other row and column; after place_at the   *)
(* cell at (r, c) is the Filled cell that was placed.                      *)
C20_Frame ==
    EditReturned =>
        /\ picross.board.width = prev.board.width
        /\ picross.board.height = prev.board.height
        /\ \A r \in 0..(RowCount - 1), c \in 0..(ColCount - 1) :
             /\ (r # call.row /\ c # call.col) =>
                    get(picross.board, r, c) = get(prev.board, r, c)
             /\ (r # call.row \/ c # call.col) =>
                    /\ is_ignored(get(prev.board, r, c)) = is_ignored(get(picross.board, r, c))
                    /\ ~is_ignored(get(prev.board, r, c)) =>
                           get(picross.board, r, c) = get(prev.board, r, c)
        /\ \A r \in 0..(RowCount - 1) :
             r # call.row => picross.status.row_status[r + 1] = prev.status.row_status[r + 1]
        /\ \A c \in 0..(ColCount - 1) :
             c # call.col => picross.status.column_status[c + 1] = prev.status.column_status[c + 1]
        /\ call.op = "place_at" =>
             /\ ~is_ignored(call.cell)
             /\ get(picross.board, call.row, call.col) = call.cell

\* a place_at that solved its column next to a filled cell of that column, and
\* whose annotation changed another cell of the column
C20_Witness ==
    /\ EditReturned
    /\ call.op = "place_at"
    /\ picross.status.column_status[call.col + 1]
    /\ \E r \in 0..(RowCount - 1) :
         /\ r # call.row
         /\ ~is_ignored(get(prev.board, r, call.col))
    /\ \E r \in 0..(RowCount - 1) :
         /\ r # call.row
         /\ get(picross.board, r, call.col) # get(prev.board, r, call.col)

----------------------------------------------------------------------------
(* C21: after construction and after any sequence of edits, every          *)
(* CrossedOut cell lies in a row whose solved-bit is true or in a column   *)
(* whose solved-bit is true.                                               *)
C21_CrossOutsInSolvedLines ==
    Constructed =>
        \A r \in 0..(height(picross) - 1), c \in 0..(width(picross) - 1) :
            get(picross.board, r, c) = CrossedOut =>
                \/ picross.status.row_status[r + 1]
                \/ picross.status.column_status[c + 1]

\* an edit has just turned its solved row and its solved column unsolved: a
\* cross-out of the row was reverted, one of the column was reverted, and
\* another of the row stays because its column is solved
C21_Witness ==
    /\ EditReturned
    /\ prev.status.row_status[call.row + 1]
    /\ ~picross.status.row_status[call.row + 1]
    /\ prev.status.column_status[call.col + 1]
    /\ ~picross.status.column_status[call.col + 1]
    /\ \E c \in 0..(ColCount - 1) :
         /\ get(prev.board, call.row, c) = CrossedOut
         /\ get(picross.board, call.row, c) = Empty
    /\ \E r \in 0..(RowCount - 1) :
         /\ r # call.row
         /\ get(prev.board, r, call.col) = CrossedOut
         /\ get(picross.board, r, call.col) = Empty
    /\ \E c \in 0..(ColCount - 1) :
         /\ get(picross.board, call.row, c) = CrossedOut
         /\ picross.status.column_status[c + 1]

----------------------------------------------------------------------------
(* C22: two edits at two distinct in-range positions, applied in either   *)
(* order, yield the same board and the same solved-bit vectors; the whole  *)
(* state is determined by which cells are Filled and with what value: a    *)
(* cell that is not Filled is CrossedOut exactly when its row or its       *)
(* column is solved.                                                       *)

\* the controller after the edit that writes `cell` at (r, c)
edit(g, cell, r, c) ==
    IF cell = Empty THEN clear_at(g, r, c).picross
    ELSE IF cell = CrossedOut THEN cross_out(g, r, c).picross
    ELSE place_at(g, cell.value, r, c).picross

\* the edit that has just returned, followed by a second edit
ThenSecond(cell, r, c) == edit(picross, cell, r, c)
\* the same two edits in the other order, from the state before the first
SecondThenFirst(cell, r, c) == edit(edit(prev, cell, r, c), call.cell, call.row, call.col)

SecondEdits ==
    {e \in [cell : EditCells, row : 0..(RowCount - 1), col : 0..(ColCount - 1)] :
        e.row # call.row \/ e.col # call.col}

DeterminedByFilled(g) ==
    \A r \in 0..(height(g) - 1), c \in 0..(width(g) - 1) :
        /\ g.status.row_status[r + 1] = row_is_solved(g.puzzle, g.board, r)
        /\ g.status.column_status[c + 1] = column_is_solved(g.puzzle, g.board, c)
        /\ is_ignored(get(g.board, r, c)) =>
               (get(g.board, r, c) = CrossedOut
                    <=> (g.status.row_status[r + 1] \/ g.status.column_status[c + 1]))

C22_EditsCommute ==
    /\ Constructed => DeterminedByFilled(picross)
    /\ EditReturned =>
         \A e \in SecondEdits :
            /\ ~ThenSecond(e.cell, e.row, e.col).panicked
            /\ ~SecondThenFirst(e.cell, e.row, e.col).panicked
            /\ ThenSecond(e.cell, e.row, e.col).board = SecondThenFirst(e.cell, e.row, e.col).board
            /\ ThenSecond(e.cell, e.row, e.col).status = SecondThenFirst(e.cell, e.row, e.col).status

\* two edits in one row that is solved after the first alone and after the second
\* alone is not: both orders end with the row unsolved, and a cross-out that the
\* first order made while the row was solved is reverted by its second edit
C22_Witness ==
    /\ EditReturned
    /\ picross.status.row_status[call.row + 1]
    /\ \E e \in SecondEdits :
         /\ e.row = call.row
         /\ ~edit(prev, e.cell, e.row, e.col).status.row_status[e.row + 1]
         /\ ~ThenSecond(e.cell, e.row, e.col).status.row_status[e.row + 1]
         /\ \E c \in 0..(ColCount - 1) :
              /\ get(prev.board, e.row, c) = Empty
              /\ get(picross.board, e.row, c) = CrossedOut
              /\ get(edit(prev, e.cell, e.row, e.col).board, e.row, c) = Empty
              /\ get(ThenSecond(e.cell, e.row, e.col).board, e.row, c) = Empty

====
